---------------------------- MODULE Spec2Model ----------------------------
(***************************************************************************)
(* Model of lib/spack/spack/util/module_cmd.py: the module() command       *)
(* runner (read-only and environment-mutating invocations) and the path    *)
(* extraction heuristics of get_path_from_module.                          *)
(*                                                                         *)
(* Python strings are modelled as sequences of one-character strings, so   *)
(* that find, split, strip, slicing and JSON decoding are computed          *)
(* character by character as the interpreter computes them.                *)
(***************************************************************************)
EXTENDS Integers, Sequences, FiniteSets, TLC

(***************************************************************************)
(* Bounds of the model.                                                    *)
(***************************************************************************)
\* number of lines in a module description text
MaxLines == 2
\* number of lines the subprocess of a mutating invocation prints before
\* its last line
MaxNoise == 1
\* number of module() calls made by each thread of the concurrent model
MaxCalls == 2
\* number of threads calling module()
NThreads == 2

(***************************************************************************)
(* Python string primitives.                                               *)
(***************************************************************************)
Min(a, b) == IF a < b THEN a ELSE b
Max(a, b) == IF a > b THEN a ELSE b

\* characters removed by str.strip() and separating words for str.split()
Whitespace == {" ", "\t", "\n", "\r", "\f"}

\* s.find(sub): 0-based index of the first occurrence, -1 when absent
Find(s, sub) ==
    LET hits == {i \in 0..(Len(s) - Len(sub)) : SubSeq(s, i + 1, i + Len(sub)) = sub}
    IN  IF hits = {} THEN -1 ELSE CHOOSE i \in hits : \A j \in hits : i <= j

\* sub in s
Contains(s, sub) == Find(s, sub) >= 0

\* s[a:b] with Python's treatment of negative and out-of-range indices
Slice(s, a, b) ==
    LET n  == Len(s)
        lo == IF a < 0 THEN Max(n + a, 0) ELSE Min(a, n)
        hi == IF b < 0 THEN Max(n + b, 0) ELSE Min(b, n)
    IN  IF lo >= hi THEN <<>> ELSE SubSeq(s, lo + 1, hi)

\* s[a:]
SliceFrom(s, a) == Slice(s, a, Len(s))

\* s.split(c) for a one-character separator c: always at least one segment
RECURSIVE SplitOn(_, _)
SplitOn(s, c) ==
    LET i == Find(s, <<c>>)
    IN  IF i < 0 THEN <<s>>
        ELSE <<SubSeq(s, 1, i)>> \o SplitOn(SubSeq(s, i + 2, Len(s)), c)

\* s.split(): words separated by runs of whitespace, no empty words
RECURSIVE SplitWs(_)
SplitWs(s) ==
    IF s = <<>> THEN <<>>
    ELSE IF s[1] \in Whitespace THEN SplitWs(Tail(s))
    ELSE LET ends == {i \in 1..Len(s) : s[i] \in Whitespace}
             e    == IF ends = {} THEN Len(s) + 1
                     ELSE CHOOSE i \in ends : \A j \in ends : i <= j
         IN  <<SubSeq(s, 1, e - 1)>> \o SplitWs(SubSeq(s, e, Len(s)))

\* s.strip()
RECURSIVE LStrip(_)
LStrip(s) == IF s # <<>> /\ s[1] \in Whitespace THEN LStrip(Tail(s)) ELSE s

RECURSIVE RStrip(_)
RStrip(s) ==
    IF s # <<>> /\ s[Len(s)] \in Whitespace THEN RStrip(SubSeq(s, 1, Len(s) - 1)) ELSE s

Strip(s) == RStrip(LStrip(s))

\* '\n'.join(lines)
RECURSIVE JoinLines(_)
JoinLines(ls) ==
    IF ls = <<>> THEN <<>>
    ELSE IF Len(ls) = 1 THEN ls[1]
    ELSE ls[1] \o <<"\n">> \o JoinLines(Tail(ls))

\* c.upper() for the ASCII letters the module names use
UpperChar(c) ==
    CASE c = "a" -> "A" [] c = "b" -> "B" [] c = "f" -> "F" [] c = "o" -> "O"
      [] OTHER -> c

\* s.upper()
Upper(s) == [i \in 1..Len(s) |-> UpperChar(s[i])]


(***************************************************************************)
(* Outcome of a call: a returned string, a returned None, or an exception. *)
(***************************************************************************)
Ok(v)    == [kind |-> "ok",    val |-> v,    err |-> "-"]
None     == [kind |-> "none",  val |-> <<>>, err |-> "-"]
Raise(e) == [kind |-> "raise", val |-> <<>>, err |-> e]
Idle     == [kind |-> "idle",  val |-> <<>>, err |-> "-"]

\* ValueError("No lua quote symbol found in lmod module line.")
NoQuoteSymbolError == "ValueError: No lua quote symbol found in lmod module line."
\* raised by line.index(',') when the line has no comma
SubstringNotFound  == "ValueError: substring not found"
\* raised by indexing a list that is too short
IndexError         == "IndexError: list index out of range"

(***************************************************************************)
(* String literals of the path heuristics.                                 *)
(***************************************************************************)
kwLdLibraryPath == <<"L", "D", "_", "L", "I", "B", "R", "A", "R", "Y", "_", "P", "A", "T", "H">>
kwDir    == <<"_", "D", "I", "R">>
kwRpath  == <<"-", "r", "p", "a", "t", "h", "/">>
kwL      == <<"-", "L", "/">>
kwPath   == <<"P", "A", "T", "H">>
kwLib    == <<"/", "l", "i", "b">>
kwBin    == <<"/", "b", "i", "n">>
LuaQuotes == {"\"", "'"}

MinOf(S) == CHOOSE i \in S : \A j \in S : i <= j

(***************************************************************************)
(* get_argument_from_module_line(line)                                     *)
(***************************************************************************)
\* a decoder that treats a Lua line without a quote as a TCL line
get_argument_unquoted_as_tcl(line) ==
    LET words == SplitWs(line)
        tcl   == IF Len(words) < 3 THEN Raise(IndexError) ELSE Ok(words[3])
    IN  IF Contains(line, <<"(">>) /\ Contains(line, <<")">>)
        THEN LET comma_index == Find(line, <<",">>)
             IN  IF comma_index < 0 THEN Raise(SubstringNotFound)
                 ELSE LET cline == SliceFrom(line, comma_index)
                          qs    == {x \in LuaQuotes : Contains(cline, <<x>>)}
                      IN  IF qs = {} THEN tcl
                          ELSE LET lua_quote ==
                                     CHOOSE x \in qs :
                                        \A y \in qs : Find(cline, <<x>>) <= Find(cline, <<y>>)
                                   words_and_symbols == SplitOn(line, lua_quote)
                               IN  Ok(words_and_symbols[Len(words_and_symbols) - 1])
        ELSE tcl

get_argument_from_module_line(line) ==
    IF Contains(line, <<"(">>) /\ Contains(line, <<")">>)
    THEN LET comma_index == Find(line, <<",">>)
         IN  IF comma_index < 0 THEN Raise(SubstringNotFound)
             ELSE LET cline == SliceFrom(line, comma_index)
                      finds == {Find(cline, <<q>>) :
                                  q \in {x \in LuaQuotes : Contains(cline, <<x>>)}}
                  IN  IF finds = {} THEN Raise(NoQuoteSymbolError)
                      ELSE LET quote_index       == MinOf(finds)
                               lua_quote         == cline[quote_index + 1]
                               words_and_symbols == SplitOn(line, lua_quote)
                           IN  IF Len(words_and_symbols) < 2 THEN Raise(IndexError)
                               ELSE Ok(words_and_symbols[Len(words_and_symbols) - 1])
    ELSE LET words == SplitWs(line)
         IN  IF Len(words) < 3 THEN Raise(IndexError) ELSE Ok(words[3])

(***************************************************************************)
(* get_path_from_module(mod): the five heuristics, each applied to the     *)
(* line its loop stops at.                                                 *)
(***************************************************************************)
\* path = get_argument_from_module_line(line); return path[:path.find('/lib')]
LdLibraryPathTier(line) ==
    LET path == get_argument_from_module_line(line)
    IN  IF path.kind = "ok" THEN Ok(Slice(path.val, 0, Find(path.val, kwLib))) ELSE path

\* return get_argument_from_module_line(line)
DirTier(line) == get_argument_from_module_line(line)

\* return line[rpath + 6:line.find('/lib')]
RpathTier(line) == Ok(Slice(line, Find(line, kwRpath) + 6, Find(line, kwLib)))

\* return line[L + 2:line.find('/lib')]
LTier(line) == Ok(Slice(line, Find(line, kwL) + 2, Find(line, kwLib)))

\* path = get_argument_from_module_line(line); return path[:path.find('/bin')]
PathTier(line) ==
    LET path == get_argument_from_module_line(line)
    IN  IF path.kind = "ok" THEN Ok(Slice(path.val, 0, Find(path.val, kwBin))) ELSE path

\* the substring each loop searches its lines for
TierKeyword(t, mod) ==
    CASE t = 1 -> kwLdLibraryPath
      [] t = 2 -> Upper(mod) \o kwDir
      [] t = 3 -> kwRpath
      [] t = 4 -> kwL
      [] t = 5 -> kwPath

TierResult(t, line) ==
    CASE t = 1 -> LdLibraryPathTier(line)
      [] t = 2 -> DirTier(line)
      [] t = 3 -> RpathTier(line)
      [] t = 4 -> LTier(line)
      [] t = 5 -> PathTier(line)

\* "for line in text: if line.find(kw) >= 0: return ...": the index of the
\* line the loop of tier t returns from, 0 when the loop runs to its end
LoopStop(lines, t, mod) ==
    LET hits == {i \in 1..Len(lines) : Find(lines[i], TierKeyword(t, mod)) >= 0}
    IN  IF hits = {} THEN 0 ELSE MinOf(hits)

\* one pass over the lines trying every heuristic on each line in turn
RECURSIVE ScanByLine(_, _)
ScanByLine(lines, mod) ==
    IF lines = <<>> THEN None
    ELSE LET ts == {t \in 1..5 : Find(lines[1], TierKeyword(t, mod)) >= 0}
         IN  IF ts = {} THEN ScanByLine(Tail(lines), mod)
             ELSE TierResult(MinOf(ts), lines[1])

get_path_from_module_by_line(text, mod) == ScanByLine(SplitOn(text, "\n"), mod)

\* text is the return value of module('show', mod)
get_path_from_module(text, mod) ==
    LET lines == SplitOn(text, "\n")
        s1 == LoopStop(lines, 1, mod)
        s2 == LoopStop(lines, 2, mod)
        s3 == LoopStop(lines, 3, mod)
        s4 == LoopStop(lines, 4, mod)
        s5 == LoopStop(lines, 5, mod)
    IN  IF s1 > 0 THEN LdLibraryPathTier(lines[s1])
        ELSE IF s2 > 0 THEN DirTier(lines[s2])
        ELSE IF s3 > 0 THEN RpathTier(lines[s3])
        ELSE IF s4 > 0 THEN LTier(lines[s4])
        ELSE IF s5 > 0 THEN PathTier(lines[s5])
        ELSE None

(***************************************************************************)
(* json.loads, for the JSON texts the model feeds it: objects, arrays,     *)
(* strings without escape sequences, non-negative integers and null, with  *)
(* optional whitespace around every token.                                 *)
(***************************************************************************)
JsonWhitespace == {" ", "\t", "\n", "\r"}
Digits         == {"0", "1"}
\* characters that may not appear unescaped inside a JSON string
ControlChars   == {"\t", "\n", "\r", "\f"}

JStr(body)  == [t |-> "str",  s |-> body, items |-> <<>>]
JNum(body)  == [t |-> "num",  s |-> body, items |-> <<>>]
JNull       == [t |-> "null", s |-> <<>>, items |-> <<>>]
\* items: the sequence of <<key, value>> members in text order
JObj(items) == [t |-> "obj",  s |-> <<>>, items |-> items]
JArr(items) == [t |-> "arr",  s |-> <<>>, items |-> items]

ParseFail       == [ok |-> FALSE, v |-> JNull, next |-> 0]
Parsed(v, next) == [ok |-> TRUE, v |-> v, next |-> next]

\* the first position at or after i that holds no JSON whitespace
RECURSIVE SkipWs(_, _)
SkipWs(s, i) == IF i <= Len(s) /\ s[i] \in JsonWhitespace THEN SkipWs(s, i + 1) ELSE i

\* s[i] is the opening quote
ParseString(s, i) ==
    LET closes == {j \in (i + 1)..Len(s) : s[j] = "\""}
    IN  IF closes = {} THEN ParseFail
        ELSE LET j    == MinOf(closes)
                 body == SubSeq(s, i + 1, j - 1)
             IN  IF \E k \in 1..Len(body) : body[k] \in ControlChars THEN ParseFail
                 ELSE Parsed(JStr(body), j + 1)

\* s[i] is a digit: "0", or a run of digits that does not start with 0
RECURSIVE DigitsEnd(_, _)
DigitsEnd(s, i) == IF i <= Len(s) /\ s[i] \in Digits THEN DigitsEnd(s, i + 1) ELSE i

ParseNumber(s, i) ==
    LET e == IF s[i] = "0" THEN i + 1 ELSE DigitsEnd(s, i)
    IN  Parsed(JNum(SubSeq(s, i, e - 1)), e)

RECURSIVE ParseValue(_, _)
RECURSIVE ParseMembers(_, _, _)
RECURSIVE ParseElements(_, _, _)

ParseValue(s, i) ==
    IF i > Len(s) THEN ParseFail
    ELSE CASE s[i] = "\"" -> ParseString(s, i)
           [] s[i] = "{"  -> LET j == SkipWs(s, i + 1)
                             IN  IF j <= Len(s) /\ s[j] = "}" THEN Parsed(JObj(<<>>), j + 1)
                                 ELSE ParseMembers(s, j, <<>>)
           [] s[i] = "["  -> LET j == SkipWs(s, i + 1)
                             IN  IF j <= Len(s) /\ s[j] = "]" THEN Parsed(JArr(<<>>), j + 1)
                                 ELSE ParseElements(s, j, <<>>)
           [] s[i] \in Digits -> ParseNumber(s, i)
           [] s[i] = "n"  -> IF SubSeq(s, i, Min(i + 3, Len(s))) = <<"n", "u", "l", "l">>
                             THEN Parsed(JNull, i + 4) ELSE ParseFail
           [] OTHER -> ParseFail

\* i is where the next member's key must start
ParseMembers(s, i, acc) ==
    IF i > Len(s) \/ s[i] # "\"" THEN ParseFail
    ELSE LET key == ParseString(s, i)
         IN  IF ~key.ok THEN ParseFail
             ELSE LET c == SkipWs(s, key.next)
                  IN  IF c > Len(s) \/ s[c] # ":" THEN ParseFail
                      ELSE LET val == ParseValue(s, SkipWs(s, c + 1))
                           IN  IF ~val.ok THEN ParseFail
                               ELSE LET e    == SkipWs(s, val.next)
                                        acc2 == Append(acc, <<key.v.s, val.v>>)
                                    IN  IF e > Len(s) THEN ParseFail
                                        ELSE IF s[e] = "}" THEN Parsed(JObj(acc2), e + 1)
                                        ELSE IF s[e] = ","
                                             THEN ParseMembers(s, SkipWs(s, e + 1), acc2)
                                        ELSE ParseFail

\* i is where the next element must start
ParseElements(s, i, acc) ==
    LET val == ParseValue(s, i)
    IN  IF ~val.ok THEN ParseFail
        ELSE LET e    == SkipWs(s, val.next)
                 acc2 == Append(acc, val.v)
             IN  IF e > Len(s) THEN ParseFail
                 ELSE IF s[e] = "]" THEN Parsed(JArr(acc2), e + 1)
                 ELSE IF s[e] = "," THEN ParseElements(s, SkipWs(s, e + 1), acc2)
                 ELSE ParseFail

\* json.loads(s): ok = FALSE stands for the ValueError it raises
json_loads(s) ==
    LET r == ParseValue(s, SkipWs(s, 1))
    IN  IF ~r.ok THEN ParseFail
        ELSE IF SkipWs(s, r.next) <= Len(s) THEN ParseFail
        ELSE r

(***************************************************************************)
(* os.environ: a mapping from variable names to values.  A dict built from *)
(* a JSON object keeps, for a repeated key, the value of its last member.  *)
(***************************************************************************)
EmptyEnv == [k \in {} |-> <<>>]

ObjKeys(items) == {items[i][1] : i \in 1..Len(items)}

ObjGet(items, k) ==
    LET at == {i \in 1..Len(items) : items[i][1] = k}
    IN  items[CHOOSE i \in at : \A j \in at : j <= i][2]

\* the keys of a dict in the interpreter's iteration order: order lists
\* every key the model uses, in the order of the interpreter's hash table
RECURSIVE IterKeys(_, _)
IterKeys(keys, order) ==
    IF order = <<>> THEN <<>>
    ELSE (IF order[1] \in keys THEN <<order[1]>> ELSE <<>>) \o IterKeys(keys, Tail(order))

\* os.environ[k] = v
SetItem(env, k, v) == [x \in DOMAIN env \cup {k} |-> IF x = k THEN v ELSE env[x]]

\* os.environ.clear()
EnvClearKeepAll(env) == env

EnvClear(env) == EmptyEnv

\* the (key, value) assignments os.environ.update(obj) attempts, in order.
\* bad = TRUE marks an assignment that raises; after the last assignment
\* raises = TRUE says update raises (the argument cannot be iterated, or an
\* element does not unpack into a pair)
Assign(k, v)  == [k |-> k, v |-> v, bad |-> FALSE]
BadAssign     == [k |-> <<>>, v |-> <<>>, bad |-> TRUE]

RECURSIVE ObjAssignments(_, _)
ObjAssignments(items, keys) ==
    IF keys = <<>> THEN <<>>
    ELSE LET v == ObjGet(items, keys[1])
         IN  <<IF v.t = "str" THEN Assign(keys[1], v.s) ELSE BadAssign>>
             \o ObjAssignments(items, Tail(keys))

\* for k, v in a_list: os.environ[k] = v
RECURSIVE ArrAssignments(_)
ArrAssignments(elems) ==
    IF elems = <<>> THEN <<>>
    ELSE LET e == elems[1]
         IN  <<IF e.t = "arr" /\ Len(e.items) = 2
                    /\ e.items[1].t = "str" /\ e.items[2].t = "str"
               THEN Assign(e.items[1].s, e.items[2].s)
               ELSE IF e.t = "str" /\ Len(e.s) = 2
               THEN Assign(<<e.s[1]>>, <<e.s[2]>>)
               ELSE BadAssign>>
             \o ArrAssignments(Tail(elems))

\* _Environ.update(dict): "if dict:" skips every false value; a mapping is
\* walked through keys(), anything else is iterated as a list of pairs
UpdatePlan(v, order) ==
    CASE v.t = "obj"  -> ObjAssignments(v.items, IterKeys(ObjKeys(v.items), order))
      [] v.t = "arr"  -> ArrAssignments(v.items)
      [] v.t = "null" -> <<>>
      [] v.t = "num"  -> IF v.s = <<"0">> THEN <<>> ELSE <<BadAssign>>
      [] v.t = "str"  -> IF v.s = <<>> THEN <<>> ELSE <<BadAssign>>

\* run the assignments until one raises
RECURSIVE RunPlan(_, _)
RunPlan(env, plan) ==
    IF plan = <<>> THEN [env |-> env, raised |-> FALSE]
    ELSE IF plan[1].bad THEN [env |-> env, raised |-> TRUE]
    ELSE RunPlan(SetItem(env, plan[1].k, plan[1].v), Tail(plan))

\* os.environ.update(v)
EnvUpdate(env, v, order) == RunPlan(env, UpdatePlan(v, order))

(***************************************************************************)
(* State.                                                                  *)
(***************************************************************************)
VARIABLES
    \* path extraction: the last operation called, its inputs and outcome
    op, mod, text, pathResult, argLine, argResult,
    \* the process environment os.environ and the interpreter's dict order
    environ, dictOrder,
    \* module(): the arguments, the captured output, os.environ before the
    \* call and the outcome of the last call
    args, env_output, env_before, outcome,
    \* callers on several threads: the holder of the callers' mutex (0 when
    \* free) and each thread's position in module()
    lock, thr

pathVars == <<op, mod, text, pathResult, argLine, argResult>>
callVars == <<args, env_output, env_before, outcome>>
concVars == <<lock, thr>>
vars     == <<op, mod, text, pathResult, argLine, argResult, environ, dictOrder,
              args, env_output, env_before, outcome, lock, thr>>

(***************************************************************************)
(* Inputs of the path extraction: module names and description lines.      *)
(***************************************************************************)
Mods == {<<"f", "o">>, <<"b">>}

ModuleLines == {
    \* TCL, argument with /lib
    <<"s", "e", "t", "e", "n", "v", " ", "L", "D", "_", "L", "I", "B", "R", "A", "R", "Y", "_", "P", "A", "T", "H", " ", "/", "o", "/", "f", "/", "l", "i", "b", "6", "4">>,
    \* Lua, double quotes
    <<"s", "e", "t", "e", "n", "v", "(", "\"", "L", "D", "_", "L", "I", "B", "R", "A", "R", "Y", "_", "P", "A", "T", "H", "\"", ",", "\"", "/", "p", "/", "l", "i", "b", "\"", ")">>,
    \* argument without /lib
    <<"s", "e", "t", "e", "n", "v", " ", "L", "D", "_", "L", "I", "B", "R", "A", "R", "Y", "_", "P", "A", "T", "H", " ", "/", "q">>,
    \* Lua, no quote after the comma
    <<"s", "e", "t", "e", "n", "v", "(", "L", "D", "_", "L", "I", "B", "R", "A", "R", "Y", "_", "P", "A", "T", "H", ",", "/", "q", "/", "l", "i", "b", ")">>,
    \* Lua, quotes before the comma only
    <<"s", "e", "t", "e", "n", "v", "(", "\"", "F", "O", "_", "D", "I", "R", "\"", ",", "/", "e", ")">>,
    \* parentheses, no comma
    <<"s", "e", "t", "e", "n", "v", "(", "L", "D", "_", "L", "I", "B", "R", "A", "R", "Y", "_", "P", "A", "T", "H", ")">>,
    \* TCL, <NAME>_DIR
    <<"s", "e", "t", "e", "n", "v", " ", "F", "O", "_", "D", "I", "R", " ", "/", "d", "/", "f", "o">>,
    \* Lua, single quotes
    <<"s", "e", "t", "e", "n", "v", "(", "'", "F", "O", "_", "D", "I", "R", "'", ",", "'", "/", "e", "'", ")">>,
    \* -rpath/
    <<"c", "c", " ", "-", "r", "p", "a", "t", "h", "/", "r", "/", "l", "i", "b", " ", "-", "o", " ", "o", "u", "t">>,
    \* /lib before -rpath/
    <<"/", "l", "i", "b", "/", "c", "c", " ", "-", "r", "p", "a", "t", "h", "/", "s", "/", "l", "i", "b">>,
    \* -L/
    <<"c", "c", " ", "-", "L", "/", "l", "/", "l", "i", "b">>,
    \* TCL, PATH
    <<"p", "r", "e", "p", "e", "n", "d", "-", "p", "a", "t", "h", " ", "P", "A", "T", "H", " ", "/", "b", "/", "b", "i", "n">>,
    \* Lua PATH, no quote
    <<"s", "e", "t", "e", "n", "v", "(", "P", "A", "T", "H", ",", "/", "b", "/", "b", "i", "n", ")">>,
    \* fewer than three words
    <<"P", "A", "T", "H">>,
    \* no signal
    <<"w", "h", "a", "t", "i", "s", " ", "f", "o">>,
    \* empty line
    <<>>
}

\* every sequence of at most n elements of S
RECURSIVE SeqsUpTo(_, _)
SeqsUpTo(S, n) ==
    IF n = 0 THEN {<<>>}
    ELSE LET shorter == SeqsUpTo(S, n - 1)
         IN  shorter \cup {Append(q, x) : q \in {r \in shorter : Len(r) = n - 1}, x \in S}

\* what module('show', mod) can return
Texts == {JoinLines(ls) : ls \in SeqsUpTo(ModuleLines, MaxLines)}

ArgPaths == {<<"/", "p">>, <<"/", "o", "/", "l", "i", "b">>, <<"x", ".", "y">>}

LuaDouble(p) == <<"s", "e", "t", "e", "n", "v", "(", "\"", "V", "A", "R", "\"", ",", "\"">> \o p \o <<"\"", ")">>
LuaSingle(p) == <<"s", "e", "t", "e", "n", "v", "(", "'", "V", "A", "R", "'", ",", "'">> \o p \o <<"'", ")">>
LuaMixed(p)  == <<"s", "e", "t", "e", "n", "v", "(", "'", "V", "A", "R", "'", ",", "\"">> \o p \o <<"\"", ")">>
LuaOneQuote(p) == <<"s", "e", "t", "e", "n", "v", "(", "V", "A", "R", ",", "\"">> \o p \o <<")">>
TclLine(p)   == <<"s", "e", "t", "e", "n", "v", " ", "V", "A", "R", " ">> \o p
TclSpaced(p) == <<"s", "e", "t", "e", "n", "v", "\t", "V", "A", "R", " ", " ">> \o p \o <<" ">>
TclShort(p)  == <<"s", "e", "t", "e", "n", "v", " ">> \o p

ArgLines ==
    ModuleLines \cup
    UNION {{LuaDouble(p), LuaSingle(p), LuaMixed(p), LuaOneQuote(p),
            TclLine(p), TclSpaced(p), TclShort(p)} : p \in ArgPaths}

(***************************************************************************)
(* Inputs of module(): argument lists, environments and captured outputs.  *)
(***************************************************************************)
module_change_commands == {"load", "swap", "unload", "purge", "use", "unuse"}

ChangeArgs == {<<"load", "gcc">>, <<"swap", "gcc", "llvm">>, <<"unload", "gcc">>,
               <<"purge">>, <<"use", "/m">>, <<"unuse", "/m">>}
QueryArgs  == {<<"show", "gcc">>, <<"avail">>}

Keys      == {<<"A">>, <<"B">>}
Values    == {<<"x">>, <<"y">>}
\* every environment over Keys and Values
Snapshots == UNION {[D -> Values] : D \in SUBSET Keys}
\* the orders in which the interpreter's dicts can hold the keys
DictOrders == {<<<<"A">>, <<"B">>>>, <<<<"B">>, <<"A">>>>}

\* json.dumps(dict(os.environ)) of the helper program py_cmd
Quoted(str) == <<"\"">> \o str \o <<"\"">>

RECURSIVE DumpMembers(_, _)
DumpMembers(S, keys) ==
    IF keys = <<>> THEN <<>>
    ELSE Quoted(keys[1]) \o <<":", " ">> \o Quoted(S[keys[1]])
         \o (IF Len(keys) > 1 THEN <<",", " ">> ELSE <<>>)
         \o DumpMembers(S, Tail(keys))

json_dumps(S, order) == <<"{">> \o DumpMembers(S, IterKeys(DOMAIN S, order)) \o <<"}">>

\* other last lines the shell pipeline can end with
OtherLastLines == {
    \* compact separators
    <<"{", "\"", "A", "\"", ":", "\"", "x", "\"", "}">>,
    \* whitespace around the tokens
    <<" ", "{", "\"", "B", "\"", " ", ":", " ", "\"", "y", "\"", " ", "}">>,
    \* a repeated key
    <<"{", "\"", "A", "\"", ":", "\"", "x", "\"", ",", "\"", "A", "\"", ":", "\"", "y", "\"", "}">>,
    \* an object with a value that is not a string
    <<"{", "\"", "A", "\"", ":", " ", "\"", "x", "\"", ",", " ", "\"", "B", "\"", ":", " ", "1", "}">>,
    \* an object with a value that is not a string
    <<"{", "\"", "A", "\"", ":", " ", "1", ",", " ", "\"", "B", "\"", ":", " ", "\"", "y", "\"", "}">>,
    \* truncated JSON
    <<"{", "\"", "A", "\"", ":", " ", "\"", "x", "\"">>,
    \* not JSON
    <<"w", "a", "r", "n">>,
    \* nothing
    <<>>,
    \* an empty array
    <<"[", "]">>,
    \* an array of pairs
    <<"[", "[", "\"", "A", "\"", ",", " ", "\"", "x", "\"", "]", "]">>,
    \* an array of a number
    <<"[", "1", "]">>,
    \* a number
    <<"1">>,
    \* the number zero
    <<"0">>,
    \* null
    <<"n", "u", "l", "l">>,
    \* a string
    <<"\"", "x", "\"">>
}

LastLines(order) == {json_dumps(S, order) : S \in Snapshots} \cup OtherLastLines

\* lines printed before the last one: a warning, a blank line, a JSON line
NoiseLines == {<<"w", "a", "r", "n">>, <<>>, <<"{", "\"", "B", "\"", ":", " ", "\"", "x", "\"", "}">>}

\* what follows the last line: the newline of print, nothing, blank lines
Trailers == {<<"\n">>, <<>>, <<"\n", " ", "\n">>}

\* the captured outputs of the pipeline of a mutating invocation
Outputs(order) ==
    {JoinLines(Append(noise, last)) \o tr :
        noise \in SeqsUpTo(NoiseLines, MaxNoise),
        last \in LastLines(order), tr \in Trailers}

\* the captured outputs of a read-only invocation
QueryOutputs == {l \o <<"\n">> : l \in ModuleLines}

(***************************************************************************)
(* module: the call                                                         *)
(***************************************************************************)
JsonError   == "ValueError: No JSON object could be decoded"
UpdateError == "TypeError: os.environ.update"

\* env_output.split('\n')[-1]
LastLineUnstripped(captured) ==
    LET ls == SplitOn(captured, "\n") IN ls[Len(ls)]

\* env_output.strip().split('\n')[-1], env_output being a str as under
\* Python 2 (under Python 3 communicate() returns bytes and this statement
\* raises TypeError before os.environ is touched)
LastLine(captured) ==
    LET ls == SplitOn(Strip(captured), "\n") IN ls[Len(ls)]

\* args[0] in module_change_commands
IsChangeAlways(cmd) == TRUE

IsChange(cmd) == cmd \in module_change_commands

\* str(module_p.communicate()[0].decode()): the captured characters
Decode(output) == [i \in 1..Len(output) |-> output[i]]

\* a module() that clears os.environ before it decodes the last line
module_clear_first(a, env, output, order) ==
    IF IsChange(a[1])
    THEN LET env_dict == json_loads(LastLine(output))
         IN  IF ~env_dict.ok THEN [environ |-> EnvClear(env), outcome |-> Raise(JsonError)]
             ELSE LET u == EnvUpdate(EnvClear(env), env_dict.v, order)
                  IN  [environ |-> u.env,
                       outcome |-> IF u.raised THEN Raise(UpdateError) ELSE None]
    ELSE [environ |-> env, outcome |-> Ok(Decode(output))]

\* the whole call: os.environ after it, and what it returns or raises
module(a, env, output, order) ==
    IF IsChange(a[1])
    THEN LET env_dict == json_loads(LastLine(output))
         IN  IF ~env_dict.ok THEN [environ |-> env, outcome |-> Raise(JsonError)]
             ELSE LET u == EnvUpdate(EnvClear(env), env_dict.v, order)
                  IN  [environ |-> u.env,
                       outcome |-> IF u.raised THEN Raise(UpdateError) ELSE None]
    ELSE [environ |-> env, outcome |-> Ok(Decode(output))]

(***************************************************************************)
(* Specification of module(): one call, from any environment.              *)
(***************************************************************************)
PathIdle ==
    /\ op = "none" /\ mod = <<>> /\ text = <<>> /\ pathResult = Idle
    /\ argLine = <<>> /\ argResult = Idle

CallIdle ==
    /\ args = <<>> /\ env_output = <<>> /\ env_before = environ /\ outcome = Idle

Init ==
    /\ environ \in Snapshots
    /\ dictOrder \in DictOrders
    /\ CallIdle
    /\ PathIdle
    /\ lock = 0 /\ thr = <<>>

\* module(...) with a command that changes the environment
ModuleChange ==
    \E a \in ChangeArgs, out \in Outputs(dictOrder) :
        LET r == module(a, environ, out, dictOrder)
        IN  /\ outcome = Idle
            /\ args' = a
            /\ env_output' = out
            /\ env_before' = environ
            /\ environ' = r.environ
            /\ outcome' = r.outcome
            /\ UNCHANGED <<dictOrder, pathVars, concVars>>

\* module(...) with any other command
ModuleQuery ==
    \E a \in QueryArgs, out \in QueryOutputs :
        LET r == module(a, environ, out, dictOrder)
        IN  /\ outcome = Idle
            /\ args' = a
            /\ env_output' = out
            /\ env_before' = environ
            /\ environ' = r.environ
            /\ outcome' = r.outcome
            /\ UNCHANGED <<dictOrder, pathVars, concVars>>

Next == ModuleChange \/ ModuleQuery

Spec == Init /\ [][Next]_vars

(***************************************************************************)
(* Specification of the path extraction.                                   *)
(***************************************************************************)
InitPath ==
    /\ environ = EmptyEnv
    /\ dictOrder \in DictOrders
    /\ CallIdle
    /\ PathIdle
    /\ lock = 0 /\ thr = <<>>

\* get_path_from_module(mod), the output of module('show', mod) being out
GetPathFromModule ==
    \E m \in Mods, out \in Texts :
        LET shown == module(<<"show", m>>, environ, out, dictOrder).outcome.val
        IN  /\ op = "none"
            /\ op' = "get_path_from_module"
            /\ mod' = m
            /\ text' = shown
            /\ pathResult' = get_path_from_module(shown, m)
            /\ argLine' = <<>> /\ argResult' = Idle
            /\ UNCHANGED <<environ, dictOrder, callVars, concVars>>

\* get_argument_from_module_line(line)
GetArgumentFromModuleLine ==
    \E line \in ArgLines :
        /\ op = "none"
        /\ op' = "get_argument_from_module_line"
        /\ argLine' = line
        /\ argResult' = get_argument_from_module_line(line)
        /\ mod' = <<>> /\ text' = <<>> /\ pathResult' = Idle
        /\ UNCHANGED <<environ, dictOrder, callVars, concVars>>

NextPath == GetPathFromModule \/ GetArgumentFromModuleLine

SpecPath == InitPath /\ [][NextPath]_vars

(***************************************************************************)
(* Specification of concurrent callers.  A caller takes the callers' mutex *)
(* before a mutating invocation and gives it back after module() returns   *)
(* or raises; a read-only invocation takes nothing.  module() runs one     *)
(* statement at a time, so that the statements of different threads        *)
(* interleave.                                                             *)
(***************************************************************************)
Threads == 1..NThreads

\* the invocations the callers treat as mutating
CallerMutating(a) == a[1] \in {"load", "swap", "unload", "purge", "use", "unuse"}

ConcArgs == {<<"load", "gcc">>, <<"unload", "gcc">>, <<"show", "gcc">>}

SnapA == [k \in {<<"A">>} |-> <<"x">>]
SnapB == [k \in {<<"B">>} |-> <<"y">>]

\* captured outputs of the pipeline: two snapshots, one behind a warning,
\* and a pipeline whose helper program did not run
ConcOutputs(order) ==
    {json_dumps(SnapA, order) \o <<"\n">>,
     <<"w", "a", "r", "n", "\n">> \o json_dumps(SnapB, order) \o <<"\n">>,
     <<"w", "a", "r", "n", "\n">>}

ConcQueryOutputs == {<<"P", "A", "T", "H", "\n">>}

ThreadIdle(n) ==
    [pc |-> "idle", a |-> <<>>, out |-> <<>>, val |-> JNull, plan |-> <<>>, calls |-> n]

InitConc ==
    /\ environ \in {EmptyEnv, [k \in Keys |-> <<"y">>]}
    /\ dictOrder \in DictOrders
    /\ CallIdle
    /\ PathIdle
    /\ lock = 0
    /\ thr = [t \in Threads |-> ThreadIdle(0)]

\* the caller takes the mutex and calls module() with a mutating command
CallChange(t) ==
    /\ thr[t].pc = "idle" /\ thr[t].calls < MaxCalls
    /\ lock = 0
    /\ \E a \in {x \in ConcArgs : CallerMutating(x)} :
          /\ lock' = t
          /\ thr' = [thr EXCEPT ![t].pc = "called", ![t].a = a]
    /\ UNCHANGED <<environ, dictOrder, callVars, pathVars>>

\* the caller calls module() with a read-only command
CallQuery(t) ==
    /\ thr[t].pc = "idle" /\ thr[t].calls < MaxCalls
    /\ \E a \in {x \in ConcArgs : ~CallerMutating(x)} :
          thr' = [thr EXCEPT ![t].pc = "called", ![t].a = a]
    /\ UNCHANGED <<environ, dictOrder, callVars, pathVars, lock>>

\* if args[0] in module_change_commands: Popen(...), communicate()
Communicate(t) ==
    /\ thr[t].pc = "called"
    /\ IF IsChange(thr[t].a[1])
       THEN \E out \in ConcOutputs(dictOrder) :
                thr' = [thr EXCEPT ![t].pc = "parse", ![t].out = out]
       ELSE \E out \in ConcQueryOutputs :
                thr' = [thr EXCEPT ![t].pc = "returned", ![t].out = Decode(out)]
    /\ UNCHANGED <<environ, dictOrder, callVars, pathVars, lock>>

\* env = env_output.strip().split('\n')[-1]; env_dict = json.loads(env)
Parse(t) ==
    /\ thr[t].pc = "parse"
    /\ LET env_dict == json_loads(LastLine(thr[t].out))
       IN  thr' = IF env_dict.ok
                  THEN [thr EXCEPT ![t].pc = "clear", ![t].val = env_dict.v]
                  ELSE [thr EXCEPT ![t].pc = "raised"]
    /\ UNCHANGED <<environ, dictOrder, callVars, pathVars, lock>>

\* os.environ.clear()
Clear(t) ==
    /\ thr[t].pc = "clear"
    /\ environ' = EnvClear(environ)
    /\ thr' = [thr EXCEPT ![t].pc = "update",
                          ![t].plan = UpdatePlan(thr[t].val, dictOrder)]
    /\ UNCHANGED <<dictOrder, callVars, pathVars, lock>>

\* os.environ.update(env_dict), one assignment at a time
Update(t) ==
    /\ thr[t].pc = "update"
    /\ IF thr[t].plan = <<>>
       THEN /\ thr' = [thr EXCEPT ![t].pc = "returned"]
            /\ UNCHANGED environ
       ELSE IF thr[t].plan[1].bad
       THEN /\ thr' = [thr EXCEPT ![t].pc = "raised"]
            /\ UNCHANGED environ
       ELSE /\ environ' = SetItem(environ, thr[t].plan[1].k, thr[t].plan[1].v)
            /\ thr' = [thr EXCEPT ![t].plan = Tail(thr[t].plan)]
    /\ UNCHANGED <<dictOrder, callVars, pathVars, lock>>

\* module() has returned or raised: the caller gives back the mutex it holds
Finish(t) ==
    /\ thr[t].pc \in {"returned", "raised"}
    /\ thr' = [thr EXCEPT ![t] = ThreadIdle(thr[t].calls + 1)]
    /\ lock' = IF lock = t THEN 0 ELSE lock
    /\ UNCHANGED <<environ, dictOrder, callVars, pathVars>>

NextConc ==
    \E t \in Threads :
        \/ CallChange(t)
        \/ CallQuery(t)
        \/ Communicate(t)
        \/ Parse(t)
        \/ Clear(t)
        \/ Update(t)
        \/ Finish(t)

SpecConc == InitConc /\ [][NextConc]_vars

(***************************************************************************)
(* Properties of the path extraction (checked under SpecPath).             *)
(***************************************************************************)
CalledPath == op = "get_path_from_module"
CalledArg  == op = "get_argument_from_module_line"

IsPrefix(r, a) == Len(r) <= Len(a) /\ SubSeq(a, 1, Len(r)) = r

\* the lines of the description text, in text order
TextLines == SplitOn(text, "\n")

LineMatches(t, line) == Contains(line, TierKeyword(t, mod))

\* the tiers some line matches, the one of highest priority among them and
\* the first line in text order that matches it
MatchingTiers == {t \in 1..5 : \E i \in 1..Len(TextLines) : LineMatches(t, TextLines[i])}
ChosenTier    == MinOf(MatchingTiers)
ChosenLine    ==
    TextLines[MinOf({i \in 1..Len(TextLines) : LineMatches(ChosenTier, TextLines[i])})]

\* the line has the Lua shape, a comma, and no quote from the comma onward
LuaWithoutQuote(line) ==
    /\ Contains(line, <<"(">>) /\ Contains(line, <<")">>)
    /\ Contains(line, <<",">>)
    /\ LET cline == SliceFrom(line, Find(line, <<",">>))
       IN  \A q \in LuaQuotes : ~Contains(cline, <<q>>)

\* C2: the result is computed from the first line, in text order, of the
\* highest-priority tier that any line matches, whatever the position of
\* that line among lines of other tiers and whatever follows it; without a
\* matching line the result is None.
C2_TierPriority ==
    CalledPath =>
        IF MatchingTiers = {} THEN pathResult = None
        ELSE pathResult = TierResult(ChosenTier, ChosenLine)

\* a <NAME>_DIR line precedes an LD_LIBRARY_PATH line and the path returned
\* is not the one of the <NAME>_DIR line
C2_Witness ==
    /\ CalledPath
    /\ Len(TextLines) = 2
    /\ LineMatches(2, TextLines[1]) /\ ~LineMatches(1, TextLines[1])
    /\ LineMatches(1, TextLines[2])
    /\ pathResult.kind = "ok"
    /\ DirTier(TextLines[1]).kind = "ok"
    /\ pathResult # DirTier(TextLines[1])

\* C3 (as claimed): when the first LD_LIBRARY_PATH line yields argument a,
\* the result r is a prefix of a, holds no /lib, and r/lib is a prefix of a.
C3_PrefixBeforeLib ==
    (CalledPath /\ 1 \in MatchingTiers /\ get_argument_from_module_line(ChosenLine).kind = "ok")
        => LET a == get_argument_from_module_line(ChosenLine).val
           IN  /\ pathResult.kind = "ok"
               /\ IsPrefix(pathResult.val, a)
               /\ ~Contains(pathResult.val, kwLib)
               /\ IsPrefix(pathResult.val \o kwLib, a)

\* the first occurrence of sub in s at or after 0-based position from
FindFrom(s, sub, from) ==
    LET hits == {i \in from..(Len(s) - Len(sub)) : SubSeq(s, i + 1, i + Len(sub)) = sub}
    IN  IF hits = {} THEN -1 ELSE MinOf(hits)

\* C4 (as claimed): with no line of tiers 1 and 2, the result is the text
\* of the first -rpath/ line from 6 characters after the match up to the
\* first /lib after the match; a /lib before the match changes nothing.
C4_RpathTruncation ==
    (CalledPath /\ MatchingTiers # {} /\ ChosenTier = 3)
        => LET m   == Find(ChosenLine, kwRpath)
               lib == FindFrom(ChosenLine, kwLib, m)
           IN  lib >= 0 => pathResult = Ok(SubSeq(ChosenLine, m + 7, lib))

\* C5: a chosen line of tier LD_LIBRARY_PATH, <NAME>_DIR or PATH that has
\* both parentheses and no quote from its first comma onward makes the
\* extraction fail with the no-quote-symbol error: no None, no path, no
\* other tier and no later line.
C5_NoQuoteRaises ==
    (CalledPath /\ MatchingTiers # {} /\ ChosenTier \in {1, 2, 5} /\ LuaWithoutQuote(ChosenLine))
        => pathResult = Raise(NoQuoteSymbolError)

\* the failing line is followed by a line that a heuristic could decode
C5_Witness ==
    /\ CalledPath /\ MatchingTiers # {} /\ ChosenTier \in {1, 2, 5}
    /\ LuaWithoutQuote(ChosenLine)
    /\ Len(TextLines) = 2 /\ ChosenLine = TextLines[1]
    /\ \E t \in 1..5 : LineMatches(t, TextLines[2]) /\ TierResult(t, TextLines[2]).kind = "ok"
    /\ pathResult.kind = "raise"

\* C6 (as claimed): the extraction returns a path, returns None, or raises
\* the no-quote-symbol error, and returns None when no line has a keyword.
C6_OnlyNoQuoteFails ==
    CalledPath =>
        /\ pathResult.kind \in {"ok", "none"} \/ pathResult = Raise(NoQuoteSymbolError)
        /\ MatchingTiers = {} => pathResult = None

\* 1-based positions of character q in line
Occurrences(line, q) == {i \in 1..Len(line) : line[i] = q}

MaxOf(S) == CHOOSE i \in S : \A j \in S : j <= i

\* C7 (as claimed): a line with both parentheses yields the text between
\* the last two occurrences of the quote that comes first after the first
\* comma; every other line yields its third whitespace-separated word; so
\* the Lua and TCL spellings of one path yield that path.
C7_ArgumentDecoding ==
    CalledArg =>
        /\ IF Contains(argLine, <<"(">>) /\ Contains(argLine, <<")">>)
           THEN (Contains(argLine, <<",">>) /\ ~LuaWithoutQuote(argLine)) =>
                    LET cline == SliceFrom(argLine, Find(argLine, <<",">>))
                        qs    == {x \in LuaQuotes : Contains(cline, <<x>>)}
                        q     == CHOOSE x \in qs :
                                    \A y \in qs : Find(cline, <<x>>) <= Find(cline, <<y>>)
                        occ   == Occurrences(argLine, q)
                    IN  /\ Cardinality(occ) >= 2
                        /\ LET last == MaxOf(occ)
                               prev == MaxOf(occ \ {last})
                           IN  argResult = Ok(SubSeq(argLine, prev + 1, last - 1))
           ELSE /\ Len(SplitWs(argLine)) >= 3
                /\ argResult = Ok(SplitWs(argLine)[3])
        /\ \A p \in ArgPaths :
              argLine \in {LuaDouble(p), LuaSingle(p), TclLine(p)} => argResult = Ok(p)

(***************************************************************************)
(* Properties of a mutating module() call (checked under Spec).            *)
(***************************************************************************)
ChangeCalled == outcome # Idle /\ args[1] \in module_change_commands

\* the last line of the captured output once the output is trimmed: from
\* the character after the last newline that precedes the last
\* non-whitespace character (or from the first non-whitespace character,
\* if there is no such newline) up to the last non-whitespace character
TrimmedLastLine(out) ==
    LET solid == {i \in 1..Len(out) : out[i] \notin Whitespace}
    IN  IF solid = {} THEN <<>>
        ELSE LET first == MinOf(solid)
                 last  == MaxOf(solid)
                 nls   == {i \in first..last : out[i] = "\n"}
                 start == IF nls = {} THEN first ELSE MaxOf(nls) + 1
             IN  SubSeq(out, start, last)

\* line without its whitespace characters
RECURSIVE Squeeze(_)
Squeeze(line) ==
    IF line = <<>> THEN <<>>
    ELSE (IF line[1] \in Whitespace THEN <<>> ELSE <<line[1]>>) \o Squeeze(Tail(line))

\* line is the JSON text of the object S, members in either order
Encodes(line, S) ==
    \E o \in DictOrders : Squeeze(line) = Squeeze(json_dumps(S, o))

\* C1: when the captured output of a mutating invocation ends in a line
\* that is the JSON object S and module() returns, os.environ equals S:
\* every key of S has S's value and every other variable of the prior
\* environment is gone, whatever that environment was.
C1_TotalReplacement ==
    \A S \in Snapshots :
        (ChangeCalled /\ outcome = None /\ Encodes(TrimmedLastLine(env_output), S))
            => environ = S

\* a returned call whose prior environment had a variable that S lacks,
\* the snapshot line being preceded by another line
C1_Witness ==
    /\ ChangeCalled /\ outcome = None
    /\ \E S \in Snapshots :
          /\ Encodes(TrimmedLastLine(env_output), S)
          /\ DOMAIN env_before \ DOMAIN S # {}
          /\ DOMAIN S \ DOMAIN env_before # {}
          /\ environ = S
    /\ Len(SplitOn(env_output, "\n")) > 2

\* outputs whose trimmed last line is line: line alone, and line behind a
\* line of noise and before any trailer
Variants(line) ==
    {line} \cup {JoinLines(<<n, line>>) \o tr : n \in NoiseLines, tr \in Trailers}

\* C8: the environment and the outcome of a mutating invocation depend on
\* the captured output only through the last line of the trimmed output:
\* every output with the same trimmed last line, whatever lines precede it
\* and whatever whitespace follows it, gives the same result.
C8_LastLineWins ==
    ChangeCalled =>
        \A other \in Variants(TrimmedLastLine(env_output)) :
            TrimmedLastLine(other) = TrimmedLastLine(env_output)
                => module(args, env_before, other, dictOrder)
                     = [environ |-> environ, outcome |-> outcome]

\* a snapshot was applied from an output whose first line is another JSON
\* object and whose last line is followed by blank lines
C8_Witness ==
    /\ ChangeCalled /\ outcome = None
    /\ Len(SplitOn(env_output, "\n")) = 4
    /\ json_loads(SplitOn(env_output, "\n")[1]).ok
    /\ environ # EmptyEnv
    /\ environ # env_before
    /\ ~(<<"B">> \in DOMAIN environ /\ environ[<<"B">>] = <<"x">>)

\* C10 (as claimed): a mutating invocation that raises leaves os.environ
\* as it was before the call.
C10_AllOrNothing ==
    (ChangeCalled /\ outcome.kind = "raise") => environ = env_before

\* C10 (amended): when the last line of the trimmed output is not valid
\* JSON the mutating invocation raises and os.environ is as before the call.
C10_UnchangedOnInvalidJson ==
    (ChangeCalled /\ ~json_loads(TrimmedLastLine(env_output)).ok)
        => outcome = Raise(JsonError) /\ environ = env_before

\* the call raised on invalid JSON from a non-empty environment
C10_Witness ==
    /\ ChangeCalled
    /\ ~json_loads(TrimmedLastLine(env_output)).ok
    /\ outcome = Raise(JsonError)
    /\ env_before # EmptyEnv
    /\ environ = env_before

(***************************************************************************)
(* Properties of concurrent callers (checked under SpecConc).              *)
(***************************************************************************)
\* the environment a parsed JSON object stands for
SnapshotOf(v) == [k \in ObjKeys(v.items) |-> ObjGet(v.items, k).s]

\* thread t is inside a module() call that takes the mutating branch
Mutating(t) == thr[t].pc # "idle" /\ CallerMutating(thr[t].a)

\* C9: with the mutex held across every mutating module() call, os.environ
\* equals the snapshot a mutating invocation parsed at the moment that
\* invocation returns, and no step of a read-only invocation changes
\* os.environ.
C9_SerializedCallers ==
    /\ [](\A t \in Threads :
             (Mutating(t) /\ thr[t].pc = "returned") => environ = SnapshotOf(thr[t].val))
    /\ [][\A t \in Threads :
             (thr[t].pc # "idle" /\ ~CallerMutating(thr[t].a) /\ thr'[t] # thr[t])
                 => environ' = environ]_vars

\* a mutating invocation returns with its snapshot applied, having replaced
\* another environment, while another thread is inside a read-only one
C9_Witness ==
    \E t \in Threads, u \in Threads :
        /\ t # u
        /\ Mutating(t) /\ thr[t].pc = "returned"
        /\ thr[t].calls = 1
        /\ environ = SnapshotOf(thr[t].val)
        /\ environ # EmptyEnv
        /\ thr[u].pc = "returned" /\ ~CallerMutating(thr[u].a)
        /\ thr[u].calls = 1

=============================================================================
